---- MODULE Spec2Model ----
(***************************************************************************)
(* A model of the extensibility core of the cms backend:                   *)
(*   - PluginsManager: the plugin registry and the hook chain              *)
(*     (cms/plugins/manager.py, cms/plugins/base_plugin.py);               *)
(*   - the webhook event-delivery subsystem: trigger, delivery rows,       *)
(*     attempts, the send job and the operator retry                       *)
(*     (cms/plugins/webhook/plugin.py, cms/plugins/webhook/utils.py; the   *)
(*     send job itself, cms/plugins/webhook/tasks.py, is modelled from     *)
(*     the specification's section 4.4 and 4.5).                           *)
(***************************************************************************)
EXTENDS Integers, Sequences, FiniteSets, TLC

(***************************************************************************)
(* Bounds of the model.                                                    *)
(***************************************************************************)
NumPlugins == 2        \* length of settings.PLUGINS
NumChannels == 1       \* number of Channel rows
MaxDefault == 1        \* default values of a hook run are 0..MaxDefault
MaxDeliveries == 2     \* EventDelivery rows ever created
MaxAttempts == 3       \* EventDeliveryAttempt rows ever created; the
                       \* configured retry ceiling is 1..MaxAttempts
MaxExtraJobs == 1      \* redelivered jobs plus operator retries
MaxKeys == 3           \* names of configuration items
MaxObjects == 2        \* rows of every model the mutations touch
MaxMedia == 3          \* PostMedia rows of the post
MaxUsers == 1001       \* User rows with an empty search_document

VARIABLES
    plugin_classes,      \* settings.PLUGINS: the class attributes, in list order
    plugin_active,       \* BasePlugin.active of every plugin instance
    all_plugins,         \* PluginsManager.all_plugins
    global_plugins,      \* PluginsManager.global_plugins
    plugins_per_channel, \* PluginsManager.plugins_per_channel (a defaultdict)
    hook_run,            \* the run of __run_method_on_plugins that has just
                         \* returned to its caller, or NoRun
    webhook_active,      \* WebhookPlugin.active
    retry_ceiling,       \* the configured retry ceiling of the send job
    sender,              \* what the endpoints answer: "any", "always503", "always400"
    payloads,            \* the ids of the EventPayload rows
    deliveries,          \* the EventDelivery rows, by id
    attempts,            \* the EventDeliveryAttempt rows of every delivery,
                         \* in creation order
    queue,               \* the send jobs in the job queue, per delivery id
    worker,              \* what every worker of the pool is doing
    ids,                 \* the next primary key of each table
    call,                \* the WebhookPlugin hook call that has just been made
                         \* and has not returned yet, or NoCall
    log,                 \* counters of what has happened so far
    plugin_config,       \* one plugin class with its persisted configuration,
                         \* and BasePlugin.configuration once it is constructed
    clearing,            \* per delivery, the payload_id a clear_successful_delivery
                         \* call holds between its two deletes, or None
    db,                  \* the committed rows of the models the mutations touch
    request,             \* the GraphQL request being served: where it is, the
                         \* rows as its transaction sees them, the callbacks
                         \* registered with transaction.on_commit
    hook_calls,          \* the hook chains the manager has run for the request
    webhook_row,         \* the active flag of the persisted PluginConfiguration
                         \* row of the WebhookPlugin: "none", "active", "inactive"
    webhook_saved,       \* save_plugin_configuration has been called on the
                         \* WebhookPlugin instance of the registry
    media,               \* the PostMedia rows of one post, by id
    media_obj,           \* the PostMedia objects loaded from the rows and not
                         \* yet let go, by id, or NoInstance
    signal,              \* delete_post_all_media: where it is, and the media
                         \* of its list it has still to visit
    empty_documents,     \* the number of User rows whose search_document is ""
    search_job           \* the chain of set_user_search_document_values jobs:
                         \* queued or stopped, updated_count, the last batch

pluginVars == <<plugin_classes, plugin_active, all_plugins, global_plugins,
                plugins_per_channel, hook_run>>

deliveryVars == <<webhook_active, retry_ceiling, sender, payloads, deliveries,
                  attempts, queue, worker, ids, call, log>>

configVars == <<plugin_config>>

clearVars == <<clearing>>

mutationVars == <<db, request, hook_calls>>

rowVars == <<webhook_row, webhook_saved>>

mediaVars == <<media, media_obj, signal>>

searchVars == <<empty_documents, search_job>>

vars == <<pluginVars, deliveryVars, configVars, clearVars, mutationVars, rowVars, mediaVars, searchVars>>

(***************************************************************************)
(* Plugins, channels and hook behaviours.                                  *)
(***************************************************************************)
\* channel_slug None (and the empty slug): falsy in `if channel_slug:`
None == 0
\* the Channel rows, in the order Channel.objects.all() yields them
Channels == [i \in 1..NumChannels |-> i]
ChannelSlugs == {Channels[i] : i \in 1..NumChannels}
\* a slug no channel has
UnknownSlug == NumChannels + 1
\* the scopes a caller may pass as channel_slug
Scopes == {None} \cup ChannelSlugs \cup {UnknownSlug}

\* the sentinel a hook returns to leave the value unchanged
NotImplemented == -1

\* What the hook method of a plugin class does:
\*   "none"    the class does not define the hook method
\*   "notimpl" the hook returns NotImplemented
\*   "const"   the hook returns a value of its own, whatever previous_value is
\*   "inc"     the hook returns previous_value + 1
HookKinds == {"none", "notimpl", "const", "inc"}
\*   "raise"   the hook raises an exception
HookKindsWithRaise == HookKinds \cup {"raise"}

\* what a call yields when an exception leaves it instead of a value
Raised == -2

\* BasePlugin.DEFAULT_ACTIVE
DEFAULT_ACTIVE == FALSE

NoRun == [channel_slug |-> -1]

Range(s) == {s[i] : i \in 1..Len(s)}

\* reading d[k] of a defaultdict(list): the list, or a new empty list
DictGet(d, k) == IF k \in DOMAIN d THEN d[k] ELSE <<>>
DictSet(d, k, v) == [x \in (DOMAIN d) \cup {k} |-> IF x = k THEN v ELSE d[x]]

(***************************************************************************)
(* PluginsManager.__init__: the registry is built from the class list, the *)
(* persisted configuration rows and the channels.                          *)
(***************************************************************************)
\* _get_db_plugin_configs: rows with no channel, keyed by identifier
GlobalDbConfigs(rows) ==
    LET found == {r.identifier : r \in {x \in rows : x.channel = None}}
    IN  [id \in found |-> CHOOSE r \in rows : r.identifier = id /\ r.channel = None]

\* _get_db_plugin_configs: rows of one channel, keyed by identifier
ChannelDbConfigs(rows, channel) ==
    LET found == {r.identifier : r \in {x \in rows : x.channel = channel}}
    IN  [id \in found |-> CHOOSE r \in rows : r.identifier = id /\ r.channel = channel]

\* _load_plugin: the instance (identified by class and channel) and its active flag
LoadPlugin(cls, db_configs_map, channel) ==
    IF cls \in DOMAIN db_configs_map
    THEN [inst |-> [cls |-> cls, channel |-> db_configs_map[cls].channel],
          active |-> db_configs_map[cls].active]
    ELSE [inst |-> [cls |-> cls, channel |-> channel],
          active |-> DEFAULT_ACTIVE]

\* the inner loop `for channel in channels` of a per-channel plugin class
RECURSIVE LoadForChannels(_, _, _, _)
LoadForChannels(reg, cls, rows, j) ==
    IF j > Len(Channels) THEN reg
    ELSE LET channel == Channels[j]
             p == LoadPlugin(cls, ChannelDbConfigs(rows, channel), channel)
         IN  LoadForChannels(
                 [reg EXCEPT
                    !.per_channel = DictSet(@, channel,
                                            Append(DictGet(@, channel), p.inst)),
                    !.all = Append(@, p.inst),
                    !.active = DictSet(@, p.inst, p.active)],
                 cls, rows, j + 1)

\* the loop `for plugin_path in plugins`
RECURSIVE LoadClasses(_, _, _, _)
LoadClasses(reg, classes, rows, i) ==
    IF i > Len(classes) THEN reg
    ELSE IF ~classes[i].per_channel
         THEN LET p == LoadPlugin(i, GlobalDbConfigs(rows), None)
              IN  LoadClasses(
                      [reg EXCEPT !.global = Append(@, p.inst),
                                  !.all = Append(@, p.inst),
                                  !.active = DictSet(@, p.inst, p.active)],
                      classes, rows, i + 1)
         ELSE LoadClasses(LoadForChannels(reg, i, rows, 1), classes, rows, i + 1)

\* a registry whose channel lists start with the global plugins
RECURSIVE ExtendChannelsGlobalFirst(_, _)
ExtendChannelsGlobalFirst(reg, j) ==
    IF j > Len(Channels) THEN reg
    ELSE ExtendChannelsGlobalFirst(
             [reg EXCEPT !.per_channel =
                 DictSet(@, Channels[j], reg.global \o DictGet(@, Channels[j]))],
             j + 1)

\* a registry whose channel lists hold a copy of each global plugin, an
\* instance of its own with the flag the global one had when it was copied
RECURSIVE ExtendChannelsCopies(_, _)
ExtendChannelsCopies(reg, j) ==
    IF j > Len(Channels) THEN reg
    ELSE LET copies == [i \in 1..Len(reg.global) |->
                           [cls |-> reg.global[i].cls, channel |-> Channels[j]]]
         IN  ExtendChannelsCopies(
                 [reg EXCEPT
                    !.per_channel = DictSet(@, Channels[j],
                                            DictGet(@, Channels[j]) \o copies),
                    !.active = [p \in (DOMAIN reg.active) \cup Range(copies) |->
                                   IF p \in DOMAIN reg.active THEN reg.active[p]
                                   ELSE reg.active[[cls |-> p.cls, channel |-> None]]]],
                 j + 1)

\* the last loop: every channel's list is extended by the global plugins
RECURSIVE ExtendChannels(_, _)
ExtendChannels(reg, j) ==
    IF j > Len(Channels) THEN reg
    ELSE ExtendChannels(
             [reg EXCEPT !.per_channel =
                 DictSet(@, Channels[j], DictGet(@, Channels[j]) \o reg.global)],
             j + 1)

EmptyRegistry ==
    [all |-> <<>>, global |-> <<>>, per_channel |-> <<>>, active |-> <<>>]

BuildRegistry(classes, rows) ==
    ExtendChannels(LoadClasses(EmptyRegistry, classes, rows, 1), 1)

(***************************************************************************)
(* get_plugins and the hook chain.                                         *)
(***************************************************************************)
\* a get_plugins that answers every plugin for a slug that is no key
GetPluginsUnknownIsAll(channel_slug, active_only) ==
    LET plugins == IF channel_slug # None /\ channel_slug \in DOMAIN plugins_per_channel
                   THEN plugins_per_channel[channel_slug]
                   ELSE all_plugins
    IN  IF active_only
        THEN SelectSeq(plugins, LAMBDA p : plugin_active[p])
        ELSE plugins

\* a get_plugins that does not filter by the active flag
GetPluginsIgnoresActive(channel_slug, active_only) ==
    IF channel_slug # None
    THEN DictGet(plugins_per_channel, channel_slug)
    ELSE all_plugins

\* get_plugins: the list the scope resolves to
GetPlugins(channel_slug, active_only) ==
    LET plugins == IF channel_slug # None
                   THEN DictGet(plugins_per_channel, channel_slug)
                   ELSE all_plugins
    IN  IF active_only
        THEN SelectSeq(plugins, LAMBDA p : plugin_active[p])
        ELSE plugins

\* a get_plugins that falls back to the global plugins for a slug that is no key
PerChannelFallsBackToGlobal(channel_slug) ==
    IF channel_slug # None /\ channel_slug \notin DOMAIN plugins_per_channel
    THEN DictSet(plugins_per_channel, channel_slug, global_plugins)
    ELSE plugins_per_channel

\* get_plugins reads plugins_per_channel[channel_slug]: a defaultdict, so a
\* slug that is no key becomes one, with an empty list
PerChannelAfterGet(channel_slug) ==
    IF channel_slug # None /\ channel_slug \notin DOMAIN plugins_per_channel
    THEN DictSet(plugins_per_channel, channel_slug, <<>>)
    ELSE plugins_per_channel

\* the value the hook method of a plugin returns
HookReturn(plugin, previous_value) ==
    LET kind == plugin_classes[plugin.cls].hook
    IN  CASE kind = "notimpl" -> NotImplemented
          [] kind = "const"   -> 10 * plugin.cls
          [] kind = "inc"     -> previous_value + 1
          [] kind = "raise"   -> Raised

\* a dispatcher that does not test the returned value for the sentinel
RunSinglePluginNoSentinel(plugin, previous_value) ==
    IF plugin_classes[plugin.cls].hook = "none"
    THEN previous_value
    ELSE HookReturn(plugin, previous_value)

\* a dispatcher that turns the sentinel into None
RunSinglePluginSentinelToNone(plugin, previous_value) ==
    IF plugin_classes[plugin.cls].hook = "none"
    THEN previous_value
    ELSE LET returned_value == HookReturn(plugin, previous_value)
         IN  IF returned_value = NotImplemented
             THEN None
             ELSE returned_value

\* __run_method_on_single_plugin; the call of plugin_method is in no try
\* block, so an exception leaves the method (Raised is no NotImplemented)
RunMethodOnSinglePlugin(plugin, previous_value) ==
    IF plugin_classes[plugin.cls].hook = "none"
    THEN previous_value
    ELSE LET returned_value == HookReturn(plugin, previous_value)
         IN  IF returned_value = NotImplemented
             THEN previous_value
             ELSE returned_value

\* a loop that catches what a hook raises and goes on with the value it had
RECURSIVE RunFromSwallows(_, _, _)
RunFromSwallows(plugins, i, value) ==
    IF i > Len(plugins) THEN value
    ELSE LET next == RunMethodOnSinglePlugin(plugins[i], value)
         IN  RunFromSwallows(plugins, i + 1, IF next = Raised THEN value ELSE next)

\* the loop of __run_method_on_plugins over plugins[i..]; the loop is in no
\* try block either, so an exception ends it
RECURSIVE RunFrom(_, _, _)
RunFrom(plugins, i, value) ==
    IF i > Len(plugins) \/ value = Raised THEN value
    ELSE RunFrom(plugins, i + 1, RunMethodOnSinglePlugin(plugins[i], value))

\* the plugins whose hook method the loop over plugins[i..] calls, in call order
RECURSIVE InvokedFrom(_, _, _)
InvokedFrom(plugins, i, value) ==
    IF i > Len(plugins) \/ value = Raised THEN <<>>
    ELSE (IF plugin_classes[plugins[i].cls].hook = "none"
          THEN <<>> ELSE <<plugins[i]>>)
         \o InvokedFrom(plugins, i + 1, RunMethodOnSinglePlugin(plugins[i], value))

\* __run_method_on_plugins
RunMethodOnPlugins(channel_slug, default_value) ==
    RunFrom(GetPlugins(channel_slug, TRUE), 1, default_value)

\* a manager hook method (post_updated, ...) called with a channel scope
RunHook(channel_slug, default_value) ==
    LET plugins == GetPlugins(channel_slug, TRUE)
    IN  /\ hook_run = NoRun
        /\ hook_run' = [channel_slug |-> channel_slug,
                        default_value |-> default_value,
                        visited |-> plugins,
                        invoked |-> InvokedFrom(plugins, 1, default_value),
                        value |-> RunMethodOnPlugins(channel_slug, default_value)]
        /\ plugins_per_channel' = PerChannelAfterGet(channel_slug)
        /\ UNCHANGED <<plugin_classes, plugin_active, all_plugins, global_plugins>>

\* get_plugins called from outside a hook run (get_plugin, webhook, ...)
CallGetPlugins(channel_slug) ==
    /\ hook_run = NoRun
    /\ plugins_per_channel' = PerChannelAfterGet(channel_slug)
    /\ UNCHANGED <<plugin_classes, plugin_active, all_plugins, global_plugins,
                   hook_run>>

\* the caller of the hook takes the value the run returned
ReturnToCaller ==
    /\ hook_run # NoRun
    /\ hook_run' = NoRun
    /\ UNCHANGED <<plugin_classes, plugin_active, all_plugins, global_plugins,
                   plugins_per_channel>>

\* save_plugin_configuration with cleaned_data = {"active": active}
SavePluginConfiguration(plugin_id, channel_slug, active) ==
    LET plugins == IF channel_slug # None
                   THEN GetPlugins(channel_slug, FALSE)
                   ELSE global_plugins
        found == {i \in 1..Len(plugins) : plugins[i].cls = plugin_id}
    IN  /\ hook_run = NoRun
        /\ plugins_per_channel' = PerChannelAfterGet(channel_slug)
        /\ IF (channel_slug # None /\ channel_slug \notin ChannelSlugs) \/ found = {}
           THEN UNCHANGED plugin_active
           ELSE LET plugin == plugins[CHOOSE i \in found : \A k \in found : i <= k]
                IN  plugin_active' = [plugin_active EXCEPT ![plugin] = active]
        /\ UNCHANGED <<plugin_classes, all_plugins, global_plugins, hook_run>>

(***************************************************************************)
(* The configuration of a plugin (base_plugin.py).                         *)
(***************************************************************************)
\* the names configuration items may have
ConfigNames == 1..MaxKeys

\* lists of configuration items with distinct names; every item of one list
\* carries the same value, which tells where the list comes from
ItemLists(value) ==
    LET Distinct(q) == \A i, j \in 1..Len(q) : q[i] = q[j] => i = j
        NameLists == UNION {{q \in [1..n -> ConfigNames] : Distinct(q)} :
                               n \in 0..MaxKeys}
    IN  {[i \in 1..Len(q) |-> [name |-> q[i], value |-> value, structure |-> "none"]] :
            q \in NameLists}

\* CONFIG_STRUCTURE: the declared names, each with a dict of fields that may
\* be empty; a class that declares nothing has no names
ConfigStructures ==
    UNION {[names -> {"fields", "empty"}] : names \in SUBSET ConfigNames}

\* no plugin class is looked at
NoConfiguration == [pc |-> "none"]

\* the names of the items of a list
ItemNames(configuration) == {configuration[i].name : i \in 1..Len(configuration)}

\* a structure update that fills nothing in from the defaults
UpdateStructureNoDefaults(config_structure, default_config, configuration) ==
    SelectSeq(configuration, LAMBDA f : f.name \in DOMAIN config_structure)

\* _update_configuration_structure; config_structure is CONFIG_STRUCTURE or {}
UpdateConfigurationStructure(config_structure, default_config, configuration) ==
    LET desired_config_keys == DOMAIN config_structure
        updated_configuration ==
            SelectSeq(configuration, LAMBDA f : f.name \in desired_config_keys)
        configured_keys == ItemNames(updated_configuration)
        missing_keys == desired_config_keys \ configured_keys
    IN  IF missing_keys = {} THEN updated_configuration
        ELSE IF default_config = <<>> THEN updated_configuration
        ELSE updated_configuration
                \o SelectSeq(default_config, LAMBDA k : k.name \in missing_keys)

\* _append_config_structure: an item whose name has fields in the structure
\* gets them, any other item is removed
AppendConfigStructure(config_structure, configuration) ==
    LET with_structure ==
            SelectSeq(configuration,
                      LAMBDA f : /\ f.name \in DOMAIN config_structure
                                 /\ config_structure[f.name] # "empty")
    IN  [i \in 1..Len(with_structure) |->
            [with_structure[i] EXCEPT !.structure = config_structure[with_structure[i].name]]]

\* get_plugin_configuration
GetPluginConfiguration(config_structure, default_config, configuration) ==
    LET updated == UpdateConfigurationStructure(config_structure, default_config,
                                                configuration)
    IN  IF updated # <<>>
        THEN AppendConfigStructure(config_structure, updated)
        ELSE updated

\* _load_plugin: the configuration handed to the constructor
LoadedConfiguration(default_config, db_config) ==
    IF db_config.exists THEN db_config.configuration ELSE default_config

\* _load_plugin and BasePlugin.__init__, for the class and row of plugin_config
ConstructPlugin ==
    /\ plugin_config.pc = "class"
    /\ plugin_config' =
          [plugin_config EXCEPT
              !.pc = "constructed",
              !.configuration =
                  GetPluginConfiguration(
                      plugin_config.config_structure,
                      plugin_config.default_config,
                      LoadedConfiguration(plugin_config.default_config,
                                          plugin_config.db_config))]
    /\ UNCHANGED <<pluginVars, deliveryVars, clearVars, mutationVars, rowVars, mediaVars, searchVars>>

(***************************************************************************)
(* The webhook event-delivery subsystem.                                   *)
(***************************************************************************)
\* EventDeliveryStatus
PENDING == "pending"
SUCCESS == "success"
FAILED == "failed"
Terminal == {SUCCESS, FAILED}

\* the WebhookPlugin hooks modelled, and the event type each one passes on
WebhookHooks == {"post_updated", "post_type_updated"}
EventTypeOf(hook) ==
    CASE hook = "post_updated"      -> "post_updated"
      [] hook = "post_type_updated" -> "page_type_updated"

\* the workers of the pool
Workers == {"w1", "w2"}
Idle == [pc |-> "idle"]

\* what an endpoint may answer: a status code, or 0 for no response at all
\* (a network error or a timeout)
Outcomes == {0, 200, 400, 429, 503}
SenderOutcomes ==
    CASE sender = "always503" -> {503}
      [] sender = "always400" -> {400}
      [] sender = "transient" -> {0, 503}
      [] OTHER -> Outcomes

DeliveryIds == 1..MaxDeliveries

\* the state of the delivery subsystem before any event
NoCall == [hook |-> "none", webhooks |-> <<>>, delivery |-> None, returned |-> "none"]
NoRows ==
    /\ payloads = {}
    /\ deliveries = <<>>
    /\ attempts = <<>>
    /\ queue = [d \in DeliveryIds |-> 0]
    /\ worker = [w \in Workers |-> Idle]
    /\ ids = [payload |-> 1, delivery |-> 1, attempt |-> 1]
    /\ call = NoCall
    /\ log = [extra |-> 0, written |-> [d \in DeliveryIds |-> 0]]

NoDeliveries ==
    /\ webhook_active = TRUE
    /\ retry_ceiling = 1
    /\ sender = "any"
    /\ NoRows

\* ----- cms/plugins/webhook/utils.py -----

\* a row list that leaves out the last webhook
DeliveryListDropsLast(webhooks, event_payload, event_type) ==
    [i \in 1..(Len(webhooks) - 1) |->
        [status |-> PENDING, event_type |-> event_type,
         payload |-> event_payload, webhook |-> webhooks[i]]]

\* create_event_delivery_list_for_webhooks: the rows bulk_create inserts
CreateEventDeliveryListForWebhooks(webhooks, event_payload, event_type) ==
    [i \in 1..Len(webhooks) |->
        [status |-> PENDING, event_type |-> event_type,
         payload |-> event_payload, webhook |-> webhooks[i]]]

\* a create_attempt that writes the status Failed
CreateAttemptFailed == [status |-> FAILED, response |-> "null"]

\* create_attempt: the new row
CreateAttempt == [status |-> PENDING, response |-> "null"]

\* the status of a WebhookResponse
ResponseStatus(code) == IF code \in 200..299 THEN SUCCESS ELSE FAILED

\* an update that leaves the status of the attempt as it was
AttemptUpdateKeepsStatus(attempt, code) == [attempt EXCEPT !.response = "set"]

\* attempt_update: the row after the update; duration, response, headers and
\* status code are one field here, "null" or "set"
AttemptUpdate(attempt, code) ==
    [attempt EXCEPT !.status = ResponseStatus(code), !.response = "set"]

\* an update that writes nothing
DeliveryUpdateWritesNothing(rows, d, status) == rows

\* delivery_update: the rows after the status of one is written
DeliveryUpdate(rows, d, status) ==
    [rows EXCEPT ![d].status = status]

Restrict(f, keep) == [x \in keep |-> f[x]]

\* ----- cms/plugins/webhook/tasks.py (from the specification) -----

\* a classification that retries every failure
NeverPermanent(code) == FALSE

\* failure classification of a response
IsPermanentFailure(code) == code \in 400..499 /\ code # 429

\* trigger_webhooks_async: one EventPayload row, one delivery per webhook, one
\* send job per delivery
TriggerWebhooksAsync(event_type, webhooks) ==
    LET payload_id == ids.payload
        rows == CreateEventDeliveryListForWebhooks(webhooks, payload_id, event_type)
        new == {ids.delivery + i - 1 : i \in 1..Len(rows)}
    IN  /\ payloads' = payloads \cup {payload_id}
        /\ deliveries' = [d \in (DOMAIN deliveries) \cup new |->
                            IF d \in new THEN rows[d - ids.delivery + 1]
                            ELSE deliveries[d]]
        /\ attempts' = [d \in (DOMAIN attempts) \cup new |->
                            IF d \in new THEN <<>> ELSE attempts[d]]
        /\ queue' = [d \in DeliveryIds |-> IF d \in new THEN 1 ELSE queue[d]]
        /\ ids' = [ids EXCEPT !.payload = payload_id + 1,
                              !.delivery = @ + Len(rows)]

\* ----- cms/plugins/webhook/plugin.py -----

\* what a hook of the WebhookPlugin returns: `previous_value` when the plugin
\* is not active, and None, by falling off the end, when it is
Returned == IF webhook_active THEN "None" ELSE "previous_value"

\* a hook that triggers without looking whether any webhook is subscribed
HookTriggersAlways(hook, webhooks) ==
    /\ call = NoCall
    /\ ids.delivery + Len(webhooks) <= MaxDeliveries + 1
    /\ call' = [hook |-> hook, webhooks |-> webhooks, delivery |-> None,
                returned |-> Returned]
    /\ IF ~webhook_active
       THEN UNCHANGED <<payloads, deliveries, attempts, queue, ids>>
       ELSE TriggerWebhooksAsync(EventTypeOf(hook), webhooks)
    /\ UNCHANGED <<webhook_active, retry_ceiling, sender, worker, log>>

\* WebhookPlugin.post_updated, post_type_updated: `webhooks` is what
\* get_webhooks_for_event answers for the event type
WebhookHook(hook, webhooks) ==
    /\ call = NoCall
    /\ ids.delivery + Len(webhooks) <= MaxDeliveries + 1
    /\ call' = [hook |-> hook, webhooks |-> webhooks, delivery |-> None,
                returned |-> Returned]
    /\ IF ~webhook_active \/ webhooks = <<>>
       THEN UNCHANGED <<payloads, deliveries, attempts, queue, ids>>
       ELSE TriggerWebhooksAsync(EventTypeOf(hook), webhooks)
    /\ UNCHANGED <<webhook_active, retry_ceiling, sender, worker, log>>

\* a retry hook that marks the delivery failed
RetryMarksFailed(d) ==
    /\ call = NoCall
    /\ d \in DOMAIN deliveries
    /\ log.extra < MaxExtraJobs
    /\ call' = [hook |-> "event_delivery_retry", webhooks |-> <<>>, delivery |-> d,
                returned |-> Returned]
    /\ IF ~webhook_active
       THEN /\ log' = [log EXCEPT !.extra = @ + 1]
            /\ UNCHANGED <<deliveries, queue>>
       ELSE /\ deliveries' = DeliveryUpdate(deliveries, d, FAILED)
            /\ queue' = [queue EXCEPT ![d] = @ + 1]
            /\ log' = [log EXCEPT !.extra = @ + 1, !.written[d] = 0]
    /\ UNCHANGED <<webhook_active, retry_ceiling, sender, payloads, attempts,
                   worker, ids>>

\* a retry hook that does not look whether the plugin is active
RetryIgnoresActive(d) ==
    /\ call = NoCall
    /\ d \in DOMAIN deliveries
    /\ log.extra < MaxExtraJobs
    /\ call' = [hook |-> "event_delivery_retry", webhooks |-> <<>>, delivery |-> d,
                returned |-> "None"]
    /\ deliveries' = DeliveryUpdate(deliveries, d, PENDING)
    /\ queue' = [queue EXCEPT ![d] = @ + 1]
    /\ log' = [log EXCEPT !.extra = @ + 1, !.written[d] = 0]
    /\ UNCHANGED <<webhook_active, retry_ceiling, sender, payloads, attempts,
                   worker, ids>>

\* WebhookPlugin.event_delivery_retry, called through the manager for a delivery
EventDeliveryRetry(d) ==
    /\ call = NoCall
    /\ d \in DOMAIN deliveries
    /\ log.extra < MaxExtraJobs
    /\ call' = [hook |-> "event_delivery_retry", webhooks |-> <<>>, delivery |-> d,
                returned |-> Returned]
    /\ IF ~webhook_active
       THEN /\ log' = [log EXCEPT !.extra = @ + 1]
            /\ UNCHANGED <<deliveries, queue>>
       ELSE /\ deliveries' = DeliveryUpdate(deliveries, d, PENDING)
            /\ queue' = [queue EXCEPT ![d] = @ + 1]
            /\ log' = [log EXCEPT !.extra = @ + 1, !.written[d] = 0]
    /\ UNCHANGED <<webhook_active, retry_ceiling, sender, payloads, attempts,
                   worker, ids>>

\* the hook call returns to the code that changed the domain object
HookReturns ==
    /\ call # NoCall
    /\ call' = NoCall
    /\ UNCHANGED <<webhook_active, retry_ceiling, sender, payloads, deliveries,
                   attempts, queue, worker, ids, log>>

\* save_plugin_configuration of the WebhookPlugin with {"active": active}
SaveWebhookConfiguration(active) ==
    /\ call = NoCall
    /\ webhook_active # active
    /\ webhook_active' = active
    /\ UNCHANGED <<retry_ceiling, sender, payloads, deliveries, attempts, queue,
                   worker, ids, call, log>>

\* no PluginConfiguration row of the WebhookPlugin is looked at
NoWebhookRow ==
    /\ webhook_row = "none"
    /\ webhook_saved = FALSE

\* no PostMedia object is loaded
NoInstance == [sort_order |-> -1, to_remove |-> FALSE]

\* no post with media is looked at
NoMedia ==
    /\ media = <<>>
    /\ media_obj = <<>>
    /\ signal = [pc |-> "idle", todo |-> <<>>]

\* no chain of search document jobs is looked at
NoSearch ==
    /\ empty_documents = 0
    /\ search_job = [pc |-> "stopped", updated_count |-> 0, batch |-> 0]

\* a constructor that keeps the flag it is given
WebhookPluginInitKeepsFlag(active) == active

\* WebhookPlugin.__init__: BasePlugin.__init__ sets self.active = active,
\* then self.active = True
WebhookPluginInit(active) == TRUE

\* WebhookPlugin.DEFAULT_ACTIVE
WEBHOOK_DEFAULT_ACTIVE == TRUE

\* _load_plugin for the WebhookPlugin: the active flag of the new instance
LoadWebhookPlugin(row) ==
    WebhookPluginInit(IF row = "none" THEN WEBHOOK_DEFAULT_ACTIVE
                      ELSE row = "active")

\* PluginsManager.__init__ of a later request: a new WebhookPlugin instance
\* takes the place of the one before
BuildWebhookRegistry ==
    /\ call = NoCall
    /\ webhook_active' = LoadWebhookPlugin(webhook_row)
    /\ webhook_saved' = FALSE
    /\ UNCHANGED <<webhook_row, retry_ceiling, sender, payloads, deliveries,
                   attempts, queue, worker, ids, call, log>>

\* save_plugin_configuration of the WebhookPlugin with {"active": active}:
\* the row is created if there is none and saved with the flag, and the
\* instance of the registry takes the flag of the row
SaveWebhookConfigurationRow(active) ==
    /\ call = NoCall
    /\ webhook_row' = IF active THEN "active" ELSE "inactive"
    /\ webhook_active' = active
    /\ webhook_saved' = TRUE
    /\ UNCHANGED <<retry_ceiling, sender, payloads, deliveries, attempts, queue,
                   worker, ids, call, log>>

\* ----- the send job, cms/plugins/webhook/tasks.py (from the specification) -----

\* a job that takes every delivery it finds, whatever its status
DeliveryExists(d) == d \in DOMAIN deliveries

\* the job loads the delivery and goes on only if it is there and Pending
LoadsPending(d) ==
    d \in DOMAIN deliveries /\ deliveries[d].status = PENDING

\* a transition write that does not look at the status again
DeliveryStillThere(d) == d \in DOMAIN deliveries

\* the delivery is read again under the row lock, right before the status is
\* written: the transition is applied only if it is still Pending
StillPending(d) ==
    d \in DOMAIN deliveries /\ deliveries[d].status = PENDING

\* a ceiling that is never reached
RetryAlways(d) == TRUE

\* a ceiling rule that allows one attempt more
RetryAllowedOffByOne(d) == Len(attempts[d]) <= retry_ceiling

\* a failed attempt is retried while the attempts so far are below the ceiling
RetryAllowed(d) == Len(attempts[d]) < retry_ceiling

\* the status transition rule: "success", "failed" or "retry"
TransitionRule(d, code) ==
    IF ResponseStatus(code) = SUCCESS THEN "success"
    ELSE IF IsPermanentFailure(code) THEN "failed"
    ELSE IF RetryAllowed(d) THEN "retry"
    ELSE "failed"

\* a worker takes a send job off the queue, loads the delivery and creates the
\* attempt row
StartAttempt(w, d) ==
    /\ call = NoCall
    /\ worker[w] = Idle
    /\ queue[d] > 0
    /\ ids.attempt <= MaxAttempts
    /\ queue' = [queue EXCEPT ![d] = @ - 1]
    /\ IF LoadsPending(d)
       THEN /\ attempts' = [attempts EXCEPT ![d] = Append(@, CreateAttempt)]
            /\ ids' = [ids EXCEPT !.attempt = @ + 1]
            /\ worker' = [worker EXCEPT ![w] =
                            [pc |-> "send", delivery |-> d,
                             attempt |-> Len(attempts[d]) + 1]]
       ELSE UNCHANGED <<attempts, worker, ids>>
    /\ UNCHANGED <<webhook_active, retry_ceiling, sender, payloads, deliveries,
                   call, log>>

\* the HTTP call of the worker ends with `code`: the worker records the outcome
\* on the attempt, applies the status transition rule and ends the job
CompleteAttempt(w, code) ==
    /\ call = NoCall
    /\ worker[w].pc = "send"
    /\ code \in SenderOutcomes
    /\ worker' = [worker EXCEPT ![w] = Idle]
    /\ LET d == worker[w].delivery
           k == worker[w].attempt
           rule == TransitionRule(d, code)
       IN  /\ IF d \in DOMAIN attempts
              THEN attempts' = [attempts EXCEPT ![d][k] = AttemptUpdate(@, code)]
              ELSE \* the rows are gone: saving the attempt fails the job
                   UNCHANGED attempts
           /\ IF ~StillPending(d)
              THEN UNCHANGED <<deliveries, queue, log>>
              ELSE CASE rule = "success" ->
                          /\ deliveries' = DeliveryUpdate(deliveries, d, SUCCESS)
                          /\ log' = [log EXCEPT !.written[d] = @ + 1]
                          /\ UNCHANGED queue
                     [] rule = "failed" ->
                          /\ deliveries' = DeliveryUpdate(deliveries, d, FAILED)
                          /\ log' = [log EXCEPT !.written[d] = @ + 1]
                          /\ UNCHANGED queue
                     [] rule = "retry" ->
                          /\ queue' = [queue EXCEPT ![d] = @ + 1]
                          /\ UNCHANGED <<deliveries, log>>
    /\ UNCHANGED <<webhook_active, retry_ceiling, sender, payloads, ids, call>>

\* the job queue delivers at least once: a job of a delivery may come again
RedeliverJob(d) ==
    /\ call = NoCall
    /\ d < ids.delivery
    /\ log.extra < MaxExtraJobs
    /\ queue' = [queue EXCEPT ![d] = @ + 1]
    /\ log' = [log EXCEPT !.extra = @ + 1]
    /\ UNCHANGED <<webhook_active, retry_ceiling, sender, payloads, deliveries,
                   attempts, worker, ids, call>>

\* ----- cms/plugins/webhook/utils.py -----

\* clear_successful_delivery
ClearSuccessfulDelivery(d) ==
    /\ call = NoCall
    /\ d \in DOMAIN deliveries
    /\ deliveries[d].status = SUCCESS
    /\ LET payload_id == deliveries[d].payload
           rest == (DOMAIN deliveries) \ {d}
       IN  /\ deliveries' = Restrict(deliveries, rest)
           /\ attempts' = Restrict(attempts, rest)
           /\ payloads' = IF \E x \in rest : deliveries[x].payload = payload_id
                          THEN payloads
                          ELSE payloads \ {payload_id}
    /\ UNCHANGED <<webhook_active, retry_ceiling, sender, queue, worker, ids,
                   call, log>>

\* no clear_successful_delivery call is between its two deletes
NoClearing == [d \in DeliveryIds |-> None]

\* a second delete that does not look for other deliveries of the payload;
\* the foreign keys cascade
DeletePayloadUnfiltered(d) ==
    /\ call = NoCall
    /\ clearing[d] # None
    /\ LET payload_id == clearing[d]
           rest == {x \in DOMAIN deliveries : deliveries[x].payload # payload_id}
       IN  /\ payloads' = payloads \ {payload_id}
           /\ deliveries' = Restrict(deliveries, rest)
           /\ attempts' = Restrict(attempts, rest)
    /\ clearing' = [clearing EXCEPT ![d] = None]
    /\ UNCHANGED <<webhook_active, retry_ceiling, sender, queue, worker, ids,
                   call, log>>

\* clear_successful_delivery, first part: the status test and
\* delivery.delete(), which cascades to the attempts of the delivery
DeleteSuccessfulDelivery(d) ==
    /\ call = NoCall
    /\ d \in DOMAIN deliveries
    /\ clearing[d] = None
    /\ deliveries[d].status = SUCCESS
    /\ LET rest == (DOMAIN deliveries) \ {d}
       IN  /\ deliveries' = Restrict(deliveries, rest)
           /\ attempts' = Restrict(attempts, rest)
    /\ clearing' = [clearing EXCEPT ![d] = deliveries[d].payload]
    /\ UNCHANGED <<webhook_active, retry_ceiling, sender, payloads, queue, worker,
                   ids, call, log>>

\* clear_successful_delivery, second part:
\* EventPayload.objects.filter(pk=payload_id, deliveries__isnull=True).delete()
DeleteUnreferencedPayload(d) ==
    /\ call = NoCall
    /\ clearing[d] # None
    /\ LET payload_id == clearing[d]
       IN  payloads' = IF \E x \in DOMAIN deliveries : deliveries[x].payload = payload_id
                       THEN payloads
                       ELSE payloads \ {payload_id}
    /\ clearing' = [clearing EXCEPT ![d] = None]
    /\ UNCHANGED <<webhook_active, retry_ceiling, sender, deliveries, attempts,
                   queue, worker, ids, call, log>>

\* the webhooks get_webhooks_for_event may answer
Subscribers == {[i \in 1..n |-> i] : n \in 0..MaxDeliveries}

\* the registry of the webhook_plugin fixture: PLUGINS = [WebhookPlugin]
WebhookOnlyRegistry ==
    /\ plugin_classes = <<[per_channel |-> FALSE, hook |-> "none"]>>
    /\ plugin_active = [p \in {[cls |-> 1, channel |-> None]} |-> TRUE]
    /\ all_plugins = <<[cls |-> 1, channel |-> None]>>
    /\ global_plugins = <<[cls |-> 1, channel |-> None]>>
    /\ plugins_per_channel = [c \in ChannelSlugs |-> <<[cls |-> 1, channel |-> None]>>]
    /\ hook_run = NoRun

(***************************************************************************)
(* The GraphQL mutations and the plugin hooks they run.                    *)
(***************************************************************************)
\* the primary keys of every model
ObjectIds == 1..MaxObjects

\* the rows: pages, page types, post types, categories, and posts with their
\* post type and their category (0: none); a translation row has the pk of
\* its post
Row(model, pk) == [model |-> model, pk |-> pk, post_type |-> 0, category |-> 0]
RowsOfModel(rows, model) == {r \in rows : r.model = model}
NoRow == Row("none", 0)

\* the hook methods PluginsManager defines, among those the mutations call,
\* and the plugin hook each one runs
ManagerMethods ==
    {"page_deleted", "page_type_deleted", "postdeleted", "post_type_deleted",
     "category_deleted"}
HookOfMethod(method) == IF method = "postdeleted" THEN "post_deleted" ELSE method

\* info.context.plugins.<method>(arg): the hook chain runs, or the attribute
\* lookup raises
CallManager(method, arg, calls) ==
    IF method \in ManagerMethods
    THEN [error |-> "none",
          calls |-> Append(calls, [hook |-> HookOfMethod(method), arg |-> arg])]
    ELSE [error |-> "AttributeError", calls |-> calls]

\* the local variables the on_commit lambdas close over
Cells == {"post", "instance", "page", "pt"}
NoCells == [c \in Cells |-> NoRow]

\* no request is being served
NoRequest ==
    [pc |-> "idle", mutation |-> "none", targets |-> {}, working |-> {},
     cells |-> NoCells, run_on_commit |-> <<>>, error |-> "none"]

NoMutation ==
    /\ db = {}
    /\ request = NoRequest
    /\ hook_calls = <<>>

\* Model.delete() with its cascade: the posts of a deleted post type go too,
\* and the translations of a deleted post
DeleteRows(rows, gone) ==
    LET posts == {r \in RowsOfModel(rows, "Post") :
                     r \in gone \/ Row("PostType", r.post_type) \in gone}
    IN  {r \in rows : /\ r \notin gone \cup posts
                      /\ ~(r.model = "PostTranslation"
                            /\ \E p \in posts : p.pk = r.pk)}

\* ModelDeleteMutation.perform_mutation inside the atomic block of the
\* subclass: the instance is deleted and, on the way out, one callback is
\* registered with transaction.on_commit, a lambda over the local `cell`
ModelDeleteMutation(mutation, instance, cell, method) ==
    /\ request.pc = "idle"
    /\ instance \in db
    /\ request' = [pc |-> "atomic", mutation |-> mutation, targets |-> {instance},
                   working |-> DeleteRows(db, {instance}),
                   cells |-> [NoCells EXCEPT ![cell] = instance],
                   run_on_commit |-> <<[method |-> method, cell |-> cell]>>,
                   error |-> "none"]
    /\ hook_calls' = <<>>
    /\ UNCHANGED db

\* PostDelete.perform_mutation
PostDelete(post) ==
    /\ post.model = "Post"
    /\ ModelDeleteMutation("postDelete", post, "post", "post_deleted")

\* PostTypeDelete.perform_mutation and post_save_action
PostTypeDelete(instance) ==
    /\ instance.model = "PostType"
    /\ ModelDeleteMutation("postTypeDelete", instance, "instance", "post_type_deleted")

\* PageDelete.perform_mutation
PageDelete(page) ==
    /\ page.model = "Page"
    /\ ModelDeleteMutation("pageDelete", page, "page", "page_deleted")

\* PageTypeDelete.perform_mutation and post_save_action
PageTypeDelete(instance) ==
    /\ instance.model = "PageType"
    /\ ModelDeleteMutation("pageTypeDelete", instance, "instance", "page_type_deleted")

\* the rows of a queryset as a list, here in the order of the primary keys
RECURSIVE ListOf(_)
ListOf(rows) ==
    IF rows = {} THEN <<>>
    ELSE LET first == CHOOSE r \in rows : \A o \in rows : r.pk <= o.pk
         IN  <<first>> \o ListOf(rows \ {first})

\* PostTypeBulkDelete.perform_mutation and bulk_action: the queryset is
\* deleted, and the loop registers one lambda per post type; every lambda
\* reads the loop variable `pt` when it is called, and the loop leaves the
\* last post type in it
PostTypeBulkDelete(post_types) ==
    /\ request.pc = "idle"
    /\ post_types # {}
    /\ post_types \subseteq RowsOfModel(db, "PostType")
    /\ LET list == ListOf(post_types)
       IN  request' = [pc |-> "atomic", mutation |-> "postTypeBulkDelete",
                       targets |-> post_types,
                       working |-> DeleteRows(db, post_types),
                       cells |-> [NoCells EXCEPT !["pt"] = list[Len(list)]],
                       run_on_commit |->
                           [i \in 1..Len(list) |->
                               [method |-> "post_type_deleted", cell |-> "pt"]],
                       error |-> "none"]
    /\ hook_calls' = <<>>
    /\ UNCHANGED db

\* manager.<method>(x) for every x of a list, up to the first call that raises
RECURSIVE CallManagerForEach(_, _, _)
CallManagerForEach(method, list, calls) ==
    IF list = <<>> THEN [error |-> "none", calls |-> calls]
    ELSE LET r == CallManager(method, Head(list), calls)
         IN  IF r.error # "none" THEN r
             ELSE CallManagerForEach(method, Tail(list), r.calls)

\* collect_categories_tree_posts for every category (the categories have no
\* descendants here)
CategoriesTreePosts(rows, categories) ==
    {p \in RowsOfModel(rows, "Post") : Row("Category", p.category) \in categories}

\* delete_categories(categories_ids, manager), an atomic block of its own: the
\* categories are deleted, category_deleted is called for each, then
\* product_updated for each post of their trees
DeleteCategories(categories) ==
    /\ request.pc = "idle"
    /\ categories # {}
    /\ categories \subseteq RowsOfModel(db, "Category")
    /\ LET posts == ListOf(CategoriesTreePosts(db, categories))
           category_instances == ListOf(categories)
           deleted == CallManagerForEach("category_deleted", category_instances, <<>>)
           updated == IF deleted.error # "none" THEN deleted
                      ELSE CallManagerForEach("product_updated", posts, deleted.calls)
       IN  /\ request' = [pc |-> IF updated.error = "none" THEN "atomic" ELSE "raised",
                          mutation |-> "categoryDelete", targets |-> categories,
                          working |-> DeleteRows(db, categories),
                          cells |-> NoCells, run_on_commit |-> <<>>,
                          error |-> updated.error]
           /\ hook_calls' = updated.calls
    /\ UNCHANGED db

\* BaseTranslateMutation.perform_mutation, which opens no atomic block:
\* update_or_create commits the translation, and transaction.on_commit, with
\* no transaction open, calls the callback at once
Translate(instance) ==
    /\ request.pc = "idle"
    /\ instance \in RowsOfModel(db, "Post")
    /\ LET translation == Row("PostTranslation", instance.pk)
           created == translation \notin db
           r == CallManager(IF created THEN "translation_created"
                            ELSE "translation_updated", translation, <<>>)
       IN  /\ db' = db \cup {translation}
           /\ request' = [NoRequest EXCEPT
                             !.pc = IF r.error = "none" THEN "committed" ELSE "failed",
                             !.mutation = "translate", !.targets = {instance},
                             !.working = db \cup {translation},
                             !.error = r.error]
           /\ hook_calls' = r.calls

\* the outermost atomic block is left without an exception: commit
Commit ==
    /\ request.pc = "atomic"
    /\ db' = request.working
    /\ request' = [request EXCEPT !.pc = "committed"]
    /\ UNCHANGED hook_calls

\* a rollback that still calls the first callback that was registered
RollbackRunsHooks ==
    /\ request.pc \in {"atomic", "raised"}
    /\ request' = [request EXCEPT !.pc = "rolled_back", !.run_on_commit = <<>>]
    /\ hook_calls' =
          IF request.run_on_commit = <<>> THEN hook_calls
          ELSE CallManager(Head(request.run_on_commit).method,
                           request.cells[Head(request.run_on_commit).cell],
                           hook_calls).calls
    /\ UNCHANGED db

\* the block is left with an exception, or the commit fails: rollback; the
\* registered callbacks are dropped
Rollback ==
    /\ request.pc \in {"atomic", "raised"}
    /\ request' = [request EXCEPT !.pc = "rolled_back", !.run_on_commit = <<>>]
    /\ UNCHANGED <<db, hook_calls>>

\* after the commit the connection calls the next registered callback; one
\* that raises ends the run of the callbacks
RunCommitHook ==
    /\ request.pc = "committed"
    /\ request.run_on_commit # <<>>
    /\ LET callback == Head(request.run_on_commit)
           r == CallManager(callback.method, request.cells[callback.cell], hook_calls)
       IN  /\ request' = IF r.error = "none"
                         THEN [request EXCEPT !.run_on_commit = Tail(@)]
                         ELSE [request EXCEPT !.pc = "failed", !.run_on_commit = <<>>,
                                              !.error = r.error]
           /\ hook_calls' = r.calls
    /\ UNCHANGED db

\* every page, post type and category there can be, post pk of post type pk
\* and maybe of a category, some posts translated; one request
InitMutations ==
    /\ WebhookOnlyRegistry
    /\ NoDeliveries
    /\ plugin_config = NoConfiguration
    /\ clearing = NoClearing
    /\ \E category \in [ObjectIds -> {0} \cup ObjectIds],
          translated \in SUBSET ObjectIds :
          db = {Row(m, pk) : m \in {"Page", "PageType", "PostType", "Category"}, pk \in ObjectIds}
                  \cup {[model |-> "Post", pk |-> pk, post_type |-> pk,
                         category |-> category[pk]] : pk \in ObjectIds}
                  \cup {Row("PostTranslation", pk) : pk \in translated}
    /\ request = NoRequest
    /\ hook_calls = <<>>
    /\ NoWebhookRow
    /\ NoMedia
    /\ NoSearch

NextMutations ==
    /\ \/ \E post \in db : PostDelete(post)
       \/ \E instance \in db : PostTypeDelete(instance)
       \/ \E page \in db : PageDelete(page)
       \/ \E instance \in db : PageTypeDelete(instance)
       \/ \E post_types \in SUBSET RowsOfModel(db, "PostType") :
              PostTypeBulkDelete(post_types)
       \/ \E categories \in SUBSET RowsOfModel(db, "Category") :
              DeleteCategories(categories)
       \/ \E instance \in db : Translate(instance)
       \/ Commit
       \/ Rollback
       \/ RunCommitHook
    /\ UNCHANGED <<pluginVars, deliveryVars, configVars, clearVars, rowVars, mediaVars, searchVars>>

SpecMutations == InitMutations /\ [][NextMutations]_vars

(***************************************************************************)
(* The media of a post (cms/post/models.py) and their removal.             *)
(***************************************************************************)
MediaIds == 1..MaxMedia

\* PostMedia.set_to_remove on the object `self` of row m: the row is saved
\* with to_remove set, then every row of the post whose sort_order is greater
\* than self.sort_order is updated to sort_order - 1
SetToRemove(rows, m, self) ==
    LET saved == [rows EXCEPT ![m].to_remove = TRUE]
    IN  [x \in DOMAIN saved |->
            IF saved[x].sort_order > self.sort_order
            THEN [saved[x] EXCEPT !.sort_order = @ - 1]
            ELSE saved[x]]

\* PostMediaDelete.perform_mutation, get_node_or_error and the to_remove
\* test: the object is loaded from its row
GetNodeOrError(m) ==
    /\ signal.pc = "idle"
    /\ media_obj[m] = NoInstance
    /\ ~media[m].to_remove
    /\ media_obj' = [media_obj EXCEPT ![m] = media[m]]
    /\ UNCHANGED <<media, signal>>

\* PostMediaDelete.perform_mutation, media_obj.set_to_remove() and the end
\* of the request
PostMediaDelete(m) ==
    /\ signal.pc = "idle"
    /\ media_obj[m] # NoInstance
    /\ media' = SetToRemove(media, m, media_obj[m])
    /\ media_obj' = [media_obj EXCEPT ![m] = NoInstance]
    /\ UNCHANGED signal

\* Meta.ordering = ("sort_order", "pk"): the ids of the rows in that order
RECURSIVE MediaOrdering(_, _)
MediaOrdering(rows, ms) ==
    IF ms = {} THEN <<>>
    ELSE LET first == CHOOSE m \in ms : \A o \in ms :
                          \/ rows[m].sort_order < rows[o].sort_order
                          \/ rows[m].sort_order = rows[o].sort_order /\ m <= o
         IN  <<first>> \o MediaOrdering(rows, ms \ {first})

\* delete_post_all_media, `if all_media := instance.media.all()`: the
\* queryset is evaluated, every media of the post is loaded
DeletePostAllMedia ==
    /\ signal.pc = "idle"
    /\ \A m \in MediaIds : media_obj[m] = NoInstance
    /\ media_obj' = media
    /\ signal' = [pc |-> "running", todo |-> MediaOrdering(media, MediaIds)]
    /\ UNCHANGED media

\* delete_post_all_media, the body of `for media in all_media`
SignalSetToRemove ==
    /\ signal.pc = "running"
    /\ LET m == Head(signal.todo)
       IN  /\ media' = SetToRemove(media, m, media_obj[m])
           /\ media_obj' = [media_obj EXCEPT ![m] = NoInstance]
    /\ signal' = IF Len(signal.todo) = 1 THEN [pc |-> "done", todo |-> <<>>]
                 ELSE [signal EXCEPT !.todo = Tail(@)]

\* the media of a post in any order, sort orders 0..MaxMedia-1, none marked
InitMedia ==
    /\ WebhookOnlyRegistry
    /\ NoDeliveries
    /\ plugin_config = NoConfiguration
    /\ clearing = NoClearing
    /\ NoMutation
    /\ NoWebhookRow
    /\ \E order \in [MediaIds -> 0..(MaxMedia - 1)] :
          /\ \A m, o \in MediaIds : m # o => order[m] # order[o]
          /\ media = [m \in MediaIds |-> [sort_order |-> order[m], to_remove |-> FALSE]]
    /\ media_obj = [m \in MediaIds |-> NoInstance]
    /\ signal = [pc |-> "idle", todo |-> <<>>]
    /\ NoSearch

NextMedia ==
    /\ \/ \E m \in MediaIds : GetNodeOrError(m)
       \/ \E m \in MediaIds : PostMediaDelete(m)
       \/ DeletePostAllMedia
       \/ SignalSetToRemove
    /\ UNCHANGED <<pluginVars, deliveryVars, configVars, clearVars, mutationVars,
                   rowVars, searchVars>>

SpecMedia == InitMedia /\ [][NextMedia]_vars

(***************************************************************************)
(* The search documents of the users (cms/core/search_tasks.py).           *)
(***************************************************************************)
BATCH_SIZE == 500

\* User.objects.filter(search_document="")[:BATCH_SIZE]: how many users the
\* run loads
UsersBatch(empty) == IF empty < BATCH_SIZE THEN empty ELSE BATCH_SIZE

\* prepare_user_search_document_value: the document of a user is not empty
PrepareUserSearchDocumentValue == "document"

\* set_search_document_values: every instance is saved with its prepared
\* document; the number of users that then have a document, and len(instances)
SetSearchDocumentValues(instances) ==
    [saved |-> IF PrepareUserSearchDocumentValue = "" THEN 0 ELSE instances,
     len |-> instances]

\* a chain that ends after any batch that is not larger than BATCH_SIZE
FinishedAfterAnyBatch(users) == users <= BATCH_SIZE

\* `if len(users) < BATCH_SIZE`: the chain is finished
Finished(users) == users < BATCH_SIZE

\* set_user_search_document_values(updated_count), one run of the job
SetUserSearchDocumentValues ==
    /\ search_job.pc = "queued"
    /\ LET users == UsersBatch(empty_documents)
           set == SetSearchDocumentValues(users)
       IN  IF users = 0
           THEN /\ search_job' = [search_job EXCEPT !.pc = "stopped", !.batch = 0]
                /\ UNCHANGED empty_documents
           ELSE /\ empty_documents' = empty_documents - set.saved
                /\ search_job' =
                      [pc |-> IF Finished(users) THEN "stopped" ELSE "queued",
                       updated_count |-> search_job.updated_count + set.len,
                       batch |-> users]

\* any number of users without a search document, and the first job of the
\* chain in the queue
InitSearch ==
    /\ WebhookOnlyRegistry
    /\ NoDeliveries
    /\ plugin_config = NoConfiguration
    /\ clearing = NoClearing
    /\ NoMutation
    /\ NoWebhookRow
    /\ NoMedia
    /\ empty_documents \in 0..MaxUsers
    /\ search_job = [pc |-> "queued", updated_count |-> 0, batch |-> 0]

NextSearch ==
    /\ SetUserSearchDocumentValues
    /\ UNCHANGED <<pluginVars, deliveryVars, configVars, clearVars, mutationVars,
                   rowVars, mediaVars>>

\* the workers run every job that is queued
SpecSearch == InitSearch /\ [][NextSearch]_vars /\ WF_vars(NextSearch)

(***************************************************************************)
(* The specifications of the event-delivery subsystem.                     *)
(***************************************************************************)
\* post_updated events on a queue that may hand a job over again, with the
\* operator retry and the cleanup; the ceiling allows no retry or one retry
Init ==
    /\ WebhookOnlyRegistry
    /\ webhook_active = TRUE
    /\ retry_ceiling \in {1, 2}
    /\ sender = "any"
    /\ NoRows
    /\ plugin_config = NoConfiguration
    /\ clearing = NoClearing
    /\ NoMutation
    /\ NoWebhookRow
    /\ NoMedia
    /\ NoSearch

Next ==
    /\ \/ \E ws \in Subscribers : WebhookHook("post_updated", ws)
       \/ HookReturns
       \/ \E w \in Workers, d \in DeliveryIds : StartAttempt(w, d)
       \/ \E w \in Workers, code \in Outcomes : CompleteAttempt(w, code)
       \/ \E d \in DeliveryIds : RedeliverJob(d)
       \/ \E d \in DeliveryIds : EventDeliveryRetry(d)
       \/ \E d \in DeliveryIds : ClearSuccessfulDelivery(d)
    /\ UNCHANGED <<pluginVars, configVars, clearVars, mutationVars, rowVars, mediaVars, searchVars>>

Spec == Init /\ [][Next]_vars

\* the same system on a queue that hands every job over exactly once, with no
\* operator retry; the sender is free, or always answered with a 503, or
\* always answered with a 400
InitOnce ==
    /\ WebhookOnlyRegistry
    /\ webhook_active = TRUE
    /\ retry_ceiling \in 1..MaxAttempts
    /\ sender \in {"any", "always503", "always400"}
    /\ NoRows
    /\ plugin_config = NoConfiguration
    /\ clearing = NoClearing
    /\ NoMutation
    /\ NoWebhookRow
    /\ NoMedia
    /\ NoSearch

NextOnce ==
    /\ \/ \E h \in WebhookHooks, ws \in Subscribers : WebhookHook(h, ws)
       \/ HookReturns
       \/ \E w \in Workers, d \in DeliveryIds : StartAttempt(w, d)
       \/ \E w \in Workers, code \in Outcomes : CompleteAttempt(w, code)
       \/ \E d \in DeliveryIds : ClearSuccessfulDelivery(d)
       \/ \E a \in BOOLEAN : SaveWebhookConfiguration(a)
    /\ UNCHANGED <<pluginVars, configVars, clearVars, mutationVars, rowVars, mediaVars, searchVars>>

SpecOnce == InitOnce /\ [][NextOnce]_vars

\* post_updated events on the exactly-once queue with a ceiling of one
\* attempt, and clear_successful_delivery calls whose two deletes interleave
\* with everything else
InitClear ==
    /\ WebhookOnlyRegistry
    /\ NoDeliveries
    /\ plugin_config = NoConfiguration
    /\ clearing = NoClearing
    /\ NoMutation
    /\ NoWebhookRow
    /\ NoMedia
    /\ NoSearch

NextClear ==
    \/ /\ \/ \E ws \in Subscribers : WebhookHook("post_updated", ws)
          \/ HookReturns
          \/ \E w \in Workers, d \in DeliveryIds : StartAttempt(w, d)
          \/ \E w \in Workers, code \in Outcomes : CompleteAttempt(w, code)
       /\ UNCHANGED <<pluginVars, configVars, clearVars, mutationVars, rowVars, mediaVars, searchVars>>
    \/ /\ \/ \E d \in DeliveryIds : DeleteSuccessfulDelivery(d)
          \/ \E d \in DeliveryIds : DeleteUnreferencedPayload(d)
       /\ UNCHANGED <<pluginVars, configVars, mutationVars, rowVars, mediaVars, searchVars>>

SpecClear == InitClear /\ [][NextClear]_vars

\* post_updated events on the exactly-once queue with a ceiling of one
\* attempt, the operator retry, and a plugin that is switched off and on
InitRetry ==
    /\ WebhookOnlyRegistry
    /\ NoDeliveries
    /\ plugin_config = NoConfiguration
    /\ clearing = NoClearing
    /\ NoMutation
    /\ NoWebhookRow
    /\ NoMedia
    /\ NoSearch

NextRetry ==
    /\ \/ \E ws \in Subscribers : WebhookHook("post_updated", ws)
       \/ HookReturns
       \/ \E w \in Workers, d \in DeliveryIds : StartAttempt(w, d)
       \/ \E w \in Workers, code \in Outcomes : CompleteAttempt(w, code)
       \/ \E d \in DeliveryIds : EventDeliveryRetry(d)
       \/ \E a \in BOOLEAN : SaveWebhookConfiguration(a)
    /\ UNCHANGED <<pluginVars, configVars, clearVars, mutationVars, rowVars, mediaVars, searchVars>>

SpecRetry == InitRetry /\ [][NextRetry]_vars

\* hook calls while the registry is built again and again from the
\* PluginConfiguration row, which save_plugin_configuration writes
InitInstance ==
    /\ WebhookOnlyRegistry
    /\ webhook_row \in {"none", "active", "inactive"}
    /\ webhook_saved = FALSE
    /\ NoMedia
    /\ NoSearch
    /\ webhook_active = LoadWebhookPlugin(webhook_row)
    /\ retry_ceiling = 1
    /\ sender = "any"
    /\ NoRows
    /\ plugin_config = NoConfiguration
    /\ clearing = NoClearing
    /\ NoMutation

NextInstance ==
    \/ /\ \/ \E h \in WebhookHooks, ws \in Subscribers : WebhookHook(h, ws)
          \/ HookReturns
       /\ UNCHANGED <<pluginVars, configVars, clearVars, mutationVars, rowVars, mediaVars, searchVars>>
    \/ /\ \/ BuildWebhookRegistry
          \/ \E a \in BOOLEAN : SaveWebhookConfigurationRow(a)
       /\ UNCHANGED <<pluginVars, configVars, clearVars, mutationVars, mediaVars, searchVars>>

SpecInstance == InitInstance /\ [][NextInstance]_vars

\* a post_updated event with as many subscribers as can still have every
\* attempt the ceiling allows them
TriggerWithinBudget(webhooks) ==
    /\ (ids.delivery - 1 + Len(webhooks)) * retry_ceiling <= MaxAttempts
    /\ WebhookHook("post_updated", webhooks)

\* the exactly-once queue with a worker pool that runs every job it is given:
\* no operator retry, no cleanup; the sender is free, or meets only network
\* errors, timeouts and 503 answers
InitLive ==
    /\ WebhookOnlyRegistry
    /\ webhook_active = TRUE
    /\ retry_ceiling \in 1..MaxAttempts
    /\ sender \in {"any", "transient"}
    /\ NoRows
    /\ plugin_config = NoConfiguration
    /\ clearing = NoClearing
    /\ NoMutation
    /\ NoWebhookRow
    /\ NoMedia
    /\ NoSearch

HookReturnsLive == HookReturns /\ UNCHANGED <<pluginVars, configVars, clearVars, mutationVars, rowVars, mediaVars, searchVars>>
StartAttemptLive ==
    /\ \E w \in Workers, d \in DeliveryIds : StartAttempt(w, d)
    /\ UNCHANGED <<pluginVars, configVars, clearVars, mutationVars, rowVars, mediaVars, searchVars>>
CompleteAttemptLive ==
    /\ \E w \in Workers, code \in Outcomes : CompleteAttempt(w, code)
    /\ UNCHANGED <<pluginVars, configVars, clearVars, mutationVars, rowVars, mediaVars, searchVars>>

NextLive ==
    \/ /\ \E ws \in Subscribers : TriggerWithinBudget(ws)
       /\ UNCHANGED <<pluginVars, configVars, clearVars, mutationVars, rowVars, mediaVars, searchVars>>
    \/ HookReturnsLive
    \/ StartAttemptLive
    \/ CompleteAttemptLive

\* the hook call returns, a queued job is taken by a worker, an HTTP call ends
\* (with an answer, an error or the timeout); the workers do not wait for
\* hook calls, so their steps are taken even if hooks keep being called
SpecLive ==
    /\ InitLive /\ [][NextLive]_vars
    /\ WF_vars(HookReturnsLive)
    /\ SF_vars(StartAttemptLive)
    /\ SF_vars(CompleteAttemptLive)

\* the relevant configuration rows: one per plugin instance, or none
RowKeys(classes) ==
    {k \in (1..Len(classes)) \X ({None} \cup ChannelSlugs) :
        classes[k[1]].per_channel <=> (k[2] # None)}

RowsOf(classes, choice) ==
    {[identifier |-> k[1], channel |-> k[2], active |-> (choice[k] = "active")] :
        k \in {x \in RowKeys(classes) : choice[x] # "none"}}

InitPlugins ==
    \E classes \in [1..NumPlugins -> [per_channel : BOOLEAN, hook : HookKinds]] :
      \E choice \in [RowKeys(classes) -> {"none", "active", "inactive"}] :
        LET reg == BuildRegistry(classes, RowsOf(classes, choice))
        IN  /\ plugin_classes = classes
            /\ plugin_active = reg.active
            /\ all_plugins = reg.all
            /\ global_plugins = reg.global
            /\ plugins_per_channel = reg.per_channel
            /\ hook_run = NoRun
            /\ NoDeliveries
            /\ plugin_config = NoConfiguration
            /\ clearing = NoClearing
            /\ NoMutation
            /\ NoWebhookRow
            /\ NoMedia
            /\ NoSearch

NextPlugins ==
    /\ \/ \E s \in Scopes, d \in 0..MaxDefault : RunHook(s, d)
       \/ \E s \in Scopes : CallGetPlugins(s)
       \/ ReturnToCaller
       \/ \E id \in 1..NumPlugins, s \in Scopes, a \in BOOLEAN :
              SavePluginConfiguration(id, s, a)
    /\ UNCHANGED <<deliveryVars, configVars, clearVars, mutationVars, rowVars, mediaVars, searchVars>>

SpecPlugins == InitPlugins /\ [][NextPlugins]_vars

\* the registry of classes that all have a hook, any rows, with hook runs and
\* save_plugin_configuration
InitShared ==
    \E classes \in [1..NumPlugins -> [per_channel : BOOLEAN, hook : {"const"}]] :
      \E choice \in [RowKeys(classes) -> {"none", "active", "inactive"}] :
        LET reg == BuildRegistry(classes, RowsOf(classes, choice))
        IN  /\ plugin_classes = classes
            /\ plugin_active = reg.active
            /\ all_plugins = reg.all
            /\ global_plugins = reg.global
            /\ plugins_per_channel = reg.per_channel
            /\ hook_run = NoRun
            /\ NoDeliveries
            /\ plugin_config = NoConfiguration
            /\ clearing = NoClearing
            /\ NoMutation
            /\ NoWebhookRow
            /\ NoMedia
            /\ NoSearch

NextShared ==
    /\ \/ \E s \in Scopes, d \in 0..MaxDefault : RunHook(s, d)
       \/ ReturnToCaller
       \/ \E id \in 1..NumPlugins, s \in Scopes, a \in BOOLEAN :
              SavePluginConfiguration(id, s, a)
    /\ UNCHANGED <<deliveryVars, configVars, clearVars, mutationVars, rowVars, mediaVars, searchVars>>

SpecShared == InitShared /\ [][NextShared]_vars

\* registries of global plugin classes whose hook may also raise, each with a
\* configuration row
InitRaise ==
    \E classes \in [1..NumPlugins -> [per_channel : {FALSE}, hook : HookKindsWithRaise]] :
      \E choice \in [RowKeys(classes) -> {"active", "inactive"}] :
        LET reg == BuildRegistry(classes, RowsOf(classes, choice))
        IN  /\ plugin_classes = classes
            /\ plugin_active = reg.active
            /\ all_plugins = reg.all
            /\ global_plugins = reg.global
            /\ plugins_per_channel = reg.per_channel
            /\ hook_run = NoRun
            /\ NoDeliveries
            /\ plugin_config = NoConfiguration
            /\ clearing = NoClearing
            /\ NoMutation
            /\ NoWebhookRow
            /\ NoMedia
            /\ NoSearch

SpecRaise == InitRaise /\ [][NextPlugins]_vars

\* one plugin class with any declared structure and default configuration,
\* with or without a configuration row, about to be loaded
InitConfig ==
    /\ WebhookOnlyRegistry
    /\ NoDeliveries
    /\ \E config_structure \in ConfigStructures, default_config \in ItemLists("default"),
          db_config \in {[exists |-> FALSE, configuration |-> <<>>]}
                          \cup {[exists |-> TRUE, configuration |-> c] :
                                   c \in ItemLists("persisted")} :
          plugin_config = [pc |-> "class",
                           config_structure |-> config_structure,
                           default_config |-> default_config,
                           db_config |-> db_config,
                           configuration |-> <<>>]
    /\ clearing = NoClearing
    /\ NoMutation
    /\ NoWebhookRow
    /\ NoMedia
    /\ NoSearch

NextConfig == ConstructPlugin

SpecConfig == InitConfig /\ [][NextConfig]_vars

(***************************************************************************)
(* Claims about the registry and the hook chain (checked under SpecPlugins)*)
(***************************************************************************)
\* the list a scope stands for in the registry, and its active members
ScopeList(s) ==
    IF s = None THEN all_plugins
    ELSE IF s \in DOMAIN plugins_per_channel THEN plugins_per_channel[s]
    ELSE <<>>

ActiveMembers(list) ==
    LET idx == {i \in 1..Len(list) : plugin_active[list[i]]}
        \* the k-th smallest index of idx
        Nth[k \in 1..Cardinality(idx)] ==
            CHOOSE i \in idx : Cardinality({j \in idx : j < i}) = k - 1
    IN  [k \in 1..Cardinality(idx) |-> list[Nth[k]]]

\* the values of a left fold over the visited plugins: FoldValues(run)[i] is the
\* value after the i-th visited plugin
FoldValues(run) ==
    LET v[i \in 0..Len(run.visited)] ==
            IF i = 0 THEN run.default_value
            ELSE LET p == run.visited[i]
                     kind == plugin_classes[p.cls].hook
                 IN  IF kind \in {"none", "notimpl"}
                     THEN v[i - 1]
                     ELSE HookReturn(p, v[i - 1])
    IN  v

\* C1: a hook run is a left fold. The value starts as the default value, the
\* active plugins of the resolved list are visited in list order, a plugin
\* without the hook or whose hook returns NotImplemented leaves the value
\* unchanged, any other return value replaces it and is the previous_value of
\* the next plugin, and the value after the last plugin is returned.
C1_HookRunIsLeftFold ==
    hook_run # NoRun =>
        /\ hook_run.visited = ActiveMembers(ScopeList(hook_run.channel_slug))
        /\ hook_run.value = FoldValues(hook_run)[Len(hook_run.visited)]

\* a run that visited a plugin returning a value of its own and then one
\* whose value depends on previous_value
C1_Witness ==
    /\ hook_run # NoRun
    /\ Len(hook_run.visited) >= 2
    /\ plugin_classes[hook_run.visited[1].cls].hook = "const"
    /\ plugin_classes[hook_run.visited[2].cls].hook = "inc"
    /\ hook_run.value = 10 * hook_run.visited[1].cls + 1

\* the instances a channel owns, and the global ones, in class-list order
ClassesWhere(per_channel) ==
    LET idx == {i \in 1..Len(plugin_classes) :
                    plugin_classes[i].per_channel = per_channel}
        Nth[k \in 1..Cardinality(idx)] ==
            CHOOSE i \in idx : Cardinality({j \in idx : j < i}) = k - 1
    IN  [k \in 1..Cardinality(idx) |-> Nth[k]]

OwnInstances(c) ==
    [k \in 1..Len(ClassesWhere(TRUE)) |->
        [cls |-> ClassesWhere(TRUE)[k], channel |-> c]]

GlobalInstances ==
    [k \in 1..Len(ClassesWhere(FALSE)) |->
        [cls |-> ClassesWhere(FALSE)[k], channel |-> None]]

C10_HookOrderStable ==
    [][ /\ (hook_run = NoRun /\ hook_run' # NoRun) =>
              hook_run'.visited = ActiveMembers(ScopeList(hook_run'.channel_slug))
        /\ (plugin_active' = plugin_active) =>
              \/ UNCHANGED <<all_plugins, plugins_per_channel>>
              \/ \A s \in Scopes :
                    ActiveMembers(ScopeList(s))' = ActiveMembers(ScopeList(s))
      ]_vars

\* a run on a known channel that visited two plugins, after the unknown slug
\* became a key of plugins_per_channel
C10_Witness ==
    /\ hook_run # NoRun
    /\ hook_run.channel_slug \in ChannelSlugs
    /\ Len(hook_run.visited) >= 2
    /\ UnknownSlug \in DOMAIN plugins_per_channel

\* the hook kind of a plugin instance
KindOf(p) == plugin_classes[p.cls].hook

\* C11: when exactly one plugin of a run contributes, a plugin B whose hook
\* returns a value V that does not depend on previous_value, and every other
\* plugin A lacks the hook or returns NotImplemented, the run returns V
\* wherever B stands in the list: over [A, B] and over [B, A] alike.
C11_SingleContributorAnyOrder ==
    hook_run # NoRun =>
        \A j \in 1..Len(hook_run.visited) :
            ( /\ KindOf(hook_run.visited[j]) = "const"
              /\ \A i \in 1..Len(hook_run.visited) :
                    i # j => KindOf(hook_run.visited[i]) \in {"none", "notimpl"} ) =>
                hook_run.value = HookReturn(hook_run.visited[j], hook_run.default_value)

\* a run over [B, A]: B returns its value, A returns NotImplemented after it
C11_Witness ==
    /\ hook_run # NoRun
    /\ Len(hook_run.visited) = 2
    /\ KindOf(hook_run.visited[1]) = "const"
    /\ KindOf(hook_run.visited[2]) = "notimpl"
    /\ hook_run.value = HookReturn(hook_run.visited[1], hook_run.default_value)
    /\ hook_run.value # hook_run.default_value

\* C12: a run with a channel slug that no channel has resolves to an empty
\* list, invokes no plugin and returns the default value, without an error;
\* a run whose resolved list holds no plugin with the hook method likewise
\* invokes nothing and returns the default value.
C12_UnknownSlugReturnsDefault ==
    hook_run # NoRun =>
        /\ hook_run.channel_slug \notin ({None} \cup ChannelSlugs) =>
              /\ hook_run.visited = <<>>
              /\ hook_run.invoked = <<>>
              /\ hook_run.value = hook_run.default_value
        /\ (\A i \in 1..Len(hook_run.visited) :
                KindOf(hook_run.visited[i]) = "none") =>
              /\ hook_run.invoked = <<>>
              /\ hook_run.value = hook_run.default_value

\* a run with the unknown slug has returned the default value, in a registry
\* that holds an active plugin whose hook returns a value of its own
C12_Witness ==
    /\ hook_run # NoRun
    /\ hook_run.channel_slug = UnknownSlug
    /\ hook_run.value = hook_run.default_value
    /\ \E i \in 1..Len(all_plugins) :
          plugin_active[all_plugins[i]] /\ KindOf(all_plugins[i]) = "const"

\* the members of a list that are active and have the hook method, in order
ActiveWithHook(list) ==
    SelectSeq(ActiveMembers(list), LAMBDA p : KindOf(p) # "none")

C14_HookErrorPropagates ==
    hook_run # NoRun =>
        LET raising == {k \in 1..Len(hook_run.visited) :
                            KindOf(hook_run.visited[k]) = "raise"}
        IN  IF raising = {}
            THEN hook_run.value # Raised
            ELSE LET k == CHOOSE x \in raising : \A y \in raising : x <= y
                 IN  /\ hook_run.value = Raised
                     /\ hook_run.invoked =
                            SelectSeq(SubSeq(hook_run.visited, 1, k),
                                      LAMBDA p : KindOf(p) # "none")

\* the first of two active plugins raised: the run ended with the exception
\* and the hook of the second, which returns a value, was never called
C14_Witness ==
    /\ hook_run # NoRun
    /\ Len(hook_run.visited) = 2
    /\ KindOf(hook_run.visited[1]) = "raise"
    /\ KindOf(hook_run.visited[2]) = "const"
    /\ hook_run.invoked = <<hook_run.visited[1]>>
    /\ hook_run.value = Raised

(***************************************************************************)
(* Claims about the plugin configuration (SpecConfig).                     *)
(***************************************************************************)
\* the names the class declares, and the persisted items
DeclaredNames == DOMAIN plugin_config.config_structure
PersistedItems == plugin_config.db_config.configuration

\* the item of a name in a list, and the items of a list, without the fields
ItemOf(configuration, name) ==
    LET i == CHOOSE i \in 1..Len(configuration) : configuration[i].name = name
    IN  [name |-> name, value |-> configuration[i].value]
ItemsOf(configuration) ==
    {[name |-> configuration[i].name, value |-> configuration[i].value] :
        i \in 1..Len(configuration)}

\* what the three rules say of a set of declared names: the persisted item,
\* else the default item, else nothing
ExpectedItems(names) ==
    {ItemOf(PersistedItems, n) : n \in names \cap ItemNames(PersistedItems)}
        \cup {ItemOf(plugin_config.default_config, n) :
                n \in (names \ ItemNames(PersistedItems))
                          \cap ItemNames(plugin_config.default_config)}

\* C15 as stated: the configuration of a constructed plugin has exactly the
\* declared names, a persisted declared item with its persisted value, no
\* undeclared item, and a declared name that was not persisted with the item
\* of the default configuration
C15_ExactlyDeclaredKeys ==
    plugin_config.pc = "constructed" =>
        /\ ItemNames(plugin_config.configuration) = DeclaredNames
        /\ ItemsOf(plugin_config.configuration) = ExpectedItems(DeclaredNames)

\* C15 amended: the configuration of a constructed plugin has only names
\* declared with fields; of these, a persisted item keeps its persisted value,
\* a name that was not persisted has the item of the default configuration
\* when there is one and is absent otherwise; each item carries the fields of
\* its name
C15_DeclaredKeysFromPersistedOrDefault ==
    plugin_config.pc = "constructed" =>
        LET with_fields == {n \in DeclaredNames :
                               plugin_config.config_structure[n] = "fields"}
            configuration == plugin_config.configuration
        IN  /\ ItemNames(configuration) \subseteq with_fields
            /\ ItemsOf(configuration) = ExpectedItems(with_fields)
            /\ \A i, j \in 1..Len(configuration) :
                   configuration[i].name = configuration[j].name => i = j
            /\ \A i \in 1..Len(configuration) : configuration[i].structure = "fields"

\* a constructed plugin whose configuration mixes a persisted item and a
\* default one, after an undeclared persisted item was dropped
C15_Witness ==
    /\ plugin_config.pc = "constructed"
    /\ ItemNames(PersistedItems) \ DeclaredNames # {}
    /\ \E i, j \in 1..Len(plugin_config.configuration) :
           /\ plugin_config.configuration[i].value = "persisted"
           /\ plugin_config.configuration[j].value = "default"

(***************************************************************************)
(* Claims about the event-delivery subsystem.                              *)
(***************************************************************************)
\* the workers that are in a send job of delivery d
WorkersOn(d) == {w \in Workers : worker[w] # Idle /\ worker[w].delivery = d}

\* the send jobs of delivery d that are queued or running
JobsOn(d) == queue[d] + Cardinality(WorkersOn(d))

\* the step is an event_delivery_retry call for delivery d
IsRetryCall(d) ==
    /\ call = NoCall
    /\ call'.hook = "event_delivery_retry"
    /\ call'.delivery = d

\* the step is a call of a triggering hook of the WebhookPlugin
IsTriggerCall == call = NoCall /\ call'.hook \in WebhookHooks

\* C2, as stated: a delivery whose status is Success or Failed never changes
\* status again, under every operation of the delivery subsystem.
C2_TerminalNeverChanges ==
    [][ \A d \in DOMAIN deliveries :
          (deliveries[d].status \in Terminal /\ d \in DOMAIN deliveries') =>
              deliveries'[d].status = deliveries[d].status
      ]_vars

\* C2, amended: a delivery whose status is Success or Failed changes status
\* only through event_delivery_retry, which sets it to Pending; no send job and
\* no cleanup changes the status of a terminal delivery, and no step moves a
\* delivery from one terminal status to the other.
C2_TerminalChangesOnlyByRetry ==
    [][ \A d \in DOMAIN deliveries :
          ( /\ deliveries[d].status \in Terminal
            /\ d \in DOMAIN deliveries'
            /\ deliveries'[d].status # deliveries[d].status ) =>
              (IsRetryCall(d) /\ deliveries'[d].status = PENDING)
      ]_vars

\* event_delivery_retry has just been called for a delivery that has a
\* successful attempt, and the delivery is Pending again
C2_Witness ==
    /\ call.hook = "event_delivery_retry"
    /\ call.delivery \in DOMAIN deliveries
    /\ deliveries[call.delivery].status = PENDING
    /\ \E k \in 1..Len(attempts[call.delivery]) :
          attempts[call.delivery][k].status = SUCCESS

\* C3: of the send jobs that run on one Pending delivery, concurrently or one
\* after the other, exactly one moves it to a terminal status: the status is
\* written at most once while the delivery is Pending (never Success twice,
\* never two different terminal statuses), the delivery is terminal exactly
\* when that one write has happened, and it has happened once no job of the
\* delivery is left.
C3_ExactlyOneTerminalTransition ==
    \A d \in DeliveryIds :
        /\ log.written[d] <= 1
        /\ d \in DOMAIN deliveries =>
              /\ (deliveries[d].status = PENDING) <=> (log.written[d] = 0)
              /\ JobsOn(d) = 0 => log.written[d] = 1

\* two jobs raced on one delivery: the first attempt failed for good and made
\* the delivery Failed, the second attempt was answered with a 2xx afterwards
\* and left the status alone
C3_Witness ==
    \E d \in DOMAIN deliveries :
        /\ deliveries[d].status = FAILED
        /\ Len(attempts[d]) = 2
        /\ attempts[d][1].status = FAILED
        /\ attempts[d][2].status = SUCCESS
        /\ log.written[d] = 1
        /\ JobsOn(d) = 0

C7_TriggerSharesOnePayload ==
    [][ (IsTriggerCall /\ webhook_active /\ call'.webhooks # <<>>) =>
          LET webhooks == call'.webhooks
              new == (DOMAIN deliveries') \ (DOMAIN deliveries)
              created == payloads' \ payloads
          IN  /\ Cardinality(created) = 1
              /\ payloads \subseteq payloads'
              /\ Cardinality(new) = Len(webhooks)
              /\ \A d \in DOMAIN deliveries :
                    d \in DOMAIN deliveries' /\ deliveries'[d] = deliveries[d]
              /\ \A d \in new :
                    /\ deliveries'[d].status = PENDING
                    /\ deliveries'[d].event_type = EventTypeOf(call'.hook)
                    /\ {deliveries'[d].payload} = created
                    /\ attempts'[d] = <<>>
                    /\ queue'[d] = 1
              /\ \A i \in 1..Len(webhooks) :
                    Cardinality({d \in new : deliveries'[d].webhook = webhooks[i]}) = 1
      ]_vars

\* a hook has just triggered for two webhooks: two Pending deliveries, one
\* payload, which both reference
C7_Witness ==
    /\ call.hook \in WebhookHooks
    /\ Len(call.webhooks) = 2
    /\ Cardinality(payloads) = 1
    /\ DOMAIN deliveries = {1, 2}
    /\ \A d \in DOMAIN deliveries :
          /\ deliveries[d].status = PENDING
          /\ deliveries[d].payload \in payloads

\* C8: a triggering hook call with no subscribed webhook is a no-op: no
\* EventPayload, EventDelivery or EventDeliveryAttempt row is created, no
\* primary key is used up and no send job is enqueued.
C8_NoSubscribersNoOp ==
    [][ (IsTriggerCall /\ call'.webhooks = <<>>) =>
          UNCHANGED <<payloads, deliveries, attempts, queue, ids, worker, log>>
      ]_vars

\* the active plugin has just been called for an event nobody subscribes to,
\* after an earlier event that had a subscriber
C8_Witness ==
    /\ call.hook \in WebhookHooks
    /\ call.webhooks = <<>>
    /\ webhook_active
    /\ ids.delivery > 1

CompletesOn(w, d) ==
    /\ worker[w] # Idle
    /\ worker[w].pc = "send"
    /\ worker[w].delivery = d
    /\ worker'[w] = Idle

\* C17: when a send job's attempt ends in a retryable error (the sender meets
\* only network errors, timeouts and 503 answers) and the delivery has fewer
\* attempts than the retry ceiling, the step records the attempt as Failed,
\* leaves the delivery Pending and enqueues exactly one send job, for that
\* delivery.
C17_TransientFailureRetries ==
    [][\A w \in Workers, d \in DOMAIN deliveries :
          (/\ sender = "transient"
           /\ CompletesOn(w, d)
           /\ Len(attempts[d]) < retry_ceiling) =>
              /\ attempts'[d][worker[w].attempt].status = FAILED
              /\ Len(attempts'[d]) = Len(attempts[d])
              /\ deliveries[d].status = PENDING
              /\ deliveries'[d].status = PENDING
              /\ queue' = [queue EXCEPT ![d] = @ + 1]]_vars

\* a first attempt that failed with a retryable error under a ceiling of two
\* or more: the delivery is Pending and its next job is queued
C17_Witness ==
    /\ sender = "transient"
    /\ retry_ceiling >= 2
    /\ \E d \in DOMAIN deliveries :
          /\ deliveries[d].status = PENDING
          /\ Len(attempts[d]) = 1
          /\ attempts[d][1].status = FAILED
          /\ queue[d] = 1
          /\ WorkersOn(d) = {}

\* C18: when every queued send job is run and every HTTP call ends, and there
\* is no event_delivery_retry, every delivery created by a trigger eventually
\* is Success or Failed. A delivery leaves Pending only in the step that ends
\* an attempt of it: to Success when that attempt succeeded, to Failed when it
\* failed, and when the sender meets only retryable errors to Failed only with
\* as many attempts as the retry ceiling.
C18_EveryDeliveryTerminates ==
    /\ \A d \in DeliveryIds :
          (d \in DOMAIN deliveries) ~>
              (d \in DOMAIN deliveries /\ deliveries[d].status \in Terminal)
    /\ [][\A d \in DOMAIN deliveries :
            (deliveries[d].status = PENDING /\ deliveries'[d].status # PENDING) =>
                \E w \in Workers :
                    /\ CompletesOn(w, d)
                    /\ deliveries'[d].status = attempts'[d][worker[w].attempt].status
                    /\ (sender = "transient") =>
                           /\ deliveries'[d].status = FAILED
                           /\ Len(attempts[d]) = retry_ceiling]_vars

\* a delivery that met only retryable errors and is Failed after as many
\* attempts as a ceiling of two or more allows, no job of it left
C18_Witness ==
    /\ sender = "transient"
    /\ retry_ceiling >= 2
    /\ \E d \in DOMAIN deliveries :
          /\ deliveries[d].status = FAILED
          /\ Len(attempts[d]) = retry_ceiling
          /\ JobsOn(d) = 0

\* C19: clear_successful_delivery deletes a delivery only when its status is
\* Success and deletes a payload only when no delivery references it; however
\* the deletes of several calls interleave, every remaining delivery's payload
\* exists, and a payload that no delivery references exists only while a call
\* that deleted one of its deliveries has its second delete still to do.
C19_ClearKeepsReferencedPayload ==
    /\ [](/\ \A d \in DOMAIN deliveries : deliveries[d].payload \in payloads
          /\ \A p \in payloads :
                (\A d \in DOMAIN deliveries : deliveries[d].payload # p) =>
                    \E d \in DeliveryIds : clearing[d] = p)
    /\ [][/\ \A d \in DOMAIN deliveries :
              d \notin DOMAIN deliveries' =>
                  /\ deliveries[d].status = SUCCESS
                  /\ clearing[d] = None /\ clearing'[d] = deliveries[d].payload
          /\ \A p \in payloads :
              p \notin payloads' =>
                  /\ \A d \in DOMAIN deliveries : deliveries[d].payload # p
                  /\ deliveries' = deliveries
                  /\ \E d \in DeliveryIds : clearing[d] = p /\ clearing'[d] = None]_vars

\* two calls for the two deliveries of one payload are both between their
\* deletes: the deliveries are gone and the payload is still there
C19_Witness ==
    \E d1, d2 \in DeliveryIds :
        /\ d1 # d2
        /\ clearing[d1] # None
        /\ clearing[d1] = clearing[d2]
        /\ clearing[d1] \in payloads
        /\ \A d \in DOMAIN deliveries : deliveries[d].payload # clearing[d1]

\* C20: an event_delivery_retry call for a Failed delivery while the plugin is
\* active sets that delivery's status to Pending and enqueues exactly one send
\* job, identified by the delivery's id alone; it touches no other delivery,
\* no attempt, no payload and no worker. A call while the plugin is inactive,
\* for any delivery, changes no row and no queue and returns previous_value.
C20_RetryResetsAndEnqueuesOnce ==
    [][\A d \in DOMAIN deliveries :
          IsRetryCall(d) =>
              IF webhook_active
              THEN deliveries[d].status = FAILED =>
                      /\ deliveries' = [deliveries EXCEPT ![d].status = PENDING]
                      /\ queue' = [queue EXCEPT ![d] = @ + 1]
                      /\ UNCHANGED <<attempts, payloads, worker, ids>>
              ELSE /\ UNCHANGED <<deliveries, queue, attempts, payloads, worker, ids>>
                   /\ call'.returned = "previous_value"]_vars

\* the retry hook of the active plugin has just been called for a delivery
\* that failed: it is Pending again, its failed attempt is kept, and its one
\* new job is queued
C20_Witness ==
    /\ webhook_active
    /\ call.hook = "event_delivery_retry"
    /\ call.returned = "None"
    /\ call.delivery \in DOMAIN deliveries
    /\ deliveries[call.delivery].status = PENDING
    /\ Len(attempts[call.delivery]) = retry_ceiling
    /\ \A k \in 1..Len(attempts[call.delivery]) :
          attempts[call.delivery][k].status = FAILED
    /\ queue[call.delivery] = 1
    /\ WorkersOn(call.delivery) = {}

\* C21: every triggering hook call of the active plugin with at least one
\* subscribed webhook triggers exactly once, with the event type that has the
\* name of the hook: one new payload, and on every new delivery the event type
\* named after the hook.
C21_TriggerEventTypeNamedAfterHook ==
    [][ (IsTriggerCall /\ webhook_active /\ call'.webhooks # <<>>) =>
          LET new == (DOMAIN deliveries') \ (DOMAIN deliveries)
          IN  /\ Cardinality(payloads' \ payloads) = 1
              /\ new # {}
              /\ \A d \in new : deliveries'[d].event_type = call'.hook
      ]_vars

\* the attempt rows of delivery d: their status is Pending exactly while the
\* response data are empty
AttemptsWellFormed(rows) ==
    \A k \in 1..Len(rows) :
        /\ rows[k].status \in {PENDING, SUCCESS, FAILED}
        /\ (rows[k].status = PENDING) <=> (rows[k].response = "null")

\* C25: an attempt is created Pending with its response data empty, goes to
\* Success or Failed in one update that also writes the response data, and
\* is never changed after that; the attempts of a delivery are removed only
\* together with the delivery.
C25_AttemptUpdatedOnce ==
    /\ [](\A d \in DOMAIN attempts : AttemptsWellFormed(attempts[d]))
    /\ [][ \A d \in DOMAIN attempts :
              IF d \in DOMAIN attempts'
              THEN /\ Len(attempts'[d]) >= Len(attempts[d])
                   /\ \A k \in 1..Len(attempts[d]) :
                         \/ attempts'[d][k] = attempts[d][k]
                         \/ /\ attempts[d][k].status = PENDING
                            /\ attempts'[d][k].status \in {SUCCESS, FAILED}
                            /\ attempts'[d][k].response = "set"
                   /\ \A k \in (Len(attempts[d]) + 1)..Len(attempts'[d]) :
                         attempts'[d][k] = [status |-> PENDING, response |-> "null"]
              ELSE d \notin DOMAIN deliveries'
         ]_vars

\* a delivery with a failed attempt, updated before, and a later attempt that
\* is still pending
C25_Witness ==
    \E d \in DOMAIN attempts :
        /\ Len(attempts[d]) >= 2
        /\ attempts[d][1].status = FAILED
        /\ attempts[d][Len(attempts[d])].status = PENDING

\* C27: the WebhookPlugin instance of a registry is active, whatever the
\* persisted row holds, until save_plugin_configuration is called on it; it
\* goes from active to inactive only in a save_plugin_configuration that
\* writes the flag off; and a hook called while it is inactive creates no
\* payload, no delivery and no send job.
C27_ActiveUntilSavedInactive ==
    /\ [](~webhook_saved => webhook_active)
    /\ [][ (webhook_active /\ ~webhook_active') =>
              (webhook_saved' /\ webhook_row' = "inactive") ]_vars
    /\ [][ (~webhook_active /\ call = NoCall /\ call' # NoCall) =>
              UNCHANGED <<payloads, deliveries, attempts, queue>> ]_vars

\* an instance built while the row says inactive has triggered a webhook
C27_Witness ==
    /\ webhook_row = "inactive"
    /\ ~webhook_saved
    /\ webhook_active
    /\ call.hook = "post_updated"
    /\ call.webhooks # <<>>
    /\ DOMAIN deliveries # {}

(***************************************************************************)
(* Claims about the media of a post (SpecMedia).                           *)
(***************************************************************************)
\* the media of the post that are not marked to_remove
LiveMedia == {m \in DOMAIN media : ~media[m].to_remove}

\* C29: whatever set_to_remove calls on distinct media have been made, the
\* sort orders of the media not marked to_remove are 0..n-1 without gaps,
\* n the number of these media.
C29_LiveSortOrdersGapless ==
    {media[m].sort_order : m \in LiveMedia} = 0..(Cardinality(LiveMedia) - 1)

RequestOver(mutation) ==
    /\ request.mutation = mutation
    /\ request.pc \in {"committed", "failed"}
    /\ request.run_on_commit = <<>>

\* the arguments of the hook chains run for the request
HookArgs == {hook_calls[i].arg : i \in 1..Len(hook_calls)}

\* C22: when a postDelete request is over, the post is deleted and the
\* post_deleted hook chain has run exactly once, for the deleted post.
C22_PostDeleteRunsHookOnce ==
    RequestOver("postDelete") =>
        /\ request.targets \cap db = {}
        /\ Len(hook_calls) = 1
        /\ hook_calls[1].hook = "post_deleted"
        /\ {hook_calls[1].arg} = request.targets

\* C23: when a postTypeBulkDelete request for N post types is over, the
\* post_type_deleted hook chain has run exactly N times, each run with a
\* different one of the deleted post types.
C23_BulkDeleteRunsHookPerPostType ==
    RequestOver("postTypeBulkDelete") =>
        /\ request.targets \cap db = {}
        /\ Len(hook_calls) = Cardinality(request.targets)
        /\ \A i \in 1..Len(hook_calls) : hook_calls[i].hook = "post_type_deleted"
        /\ HookArgs = request.targets


\* C26: delete_categories never raises, and when its transaction has
\* committed every category of the call is deleted and the category_deleted
\* hook chain has run exactly once for each of them.
C26_DeleteCategoriesNeverFails ==
    request.mutation = "categoryDelete" =>
        /\ request.error = "none"
        /\ request.pc = "committed" =>
              /\ request.targets \cap db = {}
              /\ Len(hook_calls) = Cardinality(request.targets)
              /\ \A i \in 1..Len(hook_calls) : hook_calls[i].hook = "category_deleted"
              /\ HookArgs = request.targets

\* the mutations that register their plugin hook with transaction.on_commit
OnCommitMutations ==
    {"postDelete", "postTypeDelete", "pageDelete", "pageTypeDelete",
     "postTypeBulkDelete", "translate"}

\* C28: for the mutations that register their hook with on_commit, a hook
\* chain runs only once the request's changes are committed, the transaction
\* neither open nor rolled back, and after a rollback no hook chain has run.
C28_HookRunsOnlyAfterCommit ==
    /\ [][ (request'.mutation \in OnCommitMutations /\ hook_calls' # hook_calls) =>
              /\ request'.pc \in {"committed", "failed"}
              /\ db' = request'.working
         ]_vars
    /\ [](request.mutation \in OnCommitMutations /\ request.pc = "rolled_back"
              => hook_calls = <<>>)

C28_HookRunsOnlyAfterCommit_Witness ==
    /\ request.mutation = "pageTypeDelete"
    /\ request.pc = "committed"
    /\ request.targets \cap db = {}
    /\ Len(hook_calls) = 1


(***************************************************************************)
(* Claims about the instances of the registry (SpecShared).                *)
(***************************************************************************)
\* the positions of the instances of a class in a list of plugins
InstancesOf(cls, list) == {i \in 1..Len(list) : list[i].cls = cls}

\* the one instance of a class that is not configured per channel
GlobalInstance(cls) == [cls |-> cls, channel |-> None]

\* the classes that are not configured per channel
GlobalClasses == {cls \in 1..NumPlugins : ~plugin_classes[cls].per_channel}

====
